---- MODULE Spec2Model ----
(***************************************************************************)
(* Model of my_agent/agent.py: the response formatter                      *)
(* (format_agent_response) and the POST /chat handler (chat).              *)
(*                                                                         *)
(* A Python str is modelled as a sequence of one-character strings.        *)
(* Characters that are not printable ASCII are named by their code point.  *)
(***************************************************************************)
EXTENDS Integers, Sequences, FiniteSets, TLC

\* ------------------------------------------------------------------------
\* Characters
\* ------------------------------------------------------------------------
NL == "\n"
TAB == "\t"
BULLET == "U+2022"
ARABIC3 == "U+0663"
STAR == "*"
HASH == "#"
DOT == "."
DASH == "-"
PIPE == "|"
SPACE == " "

\* str.isspace for the characters of the model
IsSpace(c) == c \in {SPACE, NL, TAB}

AsciiDigits == {"0", "1", "2", "3", "4", "5", "6", "7", "8", "9"}

\* the characters str.isdigit is true of: every Unicode digit, not only 0-9
Digits == AsciiDigits \cup {ARABIC3}

IsDigit(c) == c \in Digits

\* ------------------------------------------------------------------------
\* Bounds and inputs
\* ------------------------------------------------------------------------
MaxLen == 4
NumRequests == 2

Alphabet == {SPACE, NL, TAB, STAR, HASH, "1", DOT, DASH, BULLET, "a", ARABIC3, PIPE}

\* the inputs of the documented examples, and some longer texts
ExHello == <<"*","*","H","e","l","l","o","*","*"," ","w","o","r","l","d">>
ExSteps == <<"1","."," ","F","i","r","s","t","\n","2","."," ","S","e","c","o","n","d">>
ExParas == <<"P","a","r","a"," ","o","n","e",".","\n","\n","P","a","r","a"," ","t","w","o",".">>
ExItems == <<"-"," ","i","t","e","m"," ","a","\n","-"," ","i","t","e","m"," ","b">>
ExHundred == <<"1","0","."," ","o","k","\n","1","0","0","."," ","n","o","t"," ","s","t","r","i","p","p","e","d">>
ExHundredOut == <<"o","k"," ","1","0","0","."," ","n","o","t"," ","s","t","r","i","p","p","e","d">>
ExTab == <<"a", TAB, "b", NL, TAB, NL, BULLET, " ", BULLET, "c", TAB>>
ExBlanks == <<"a", NL, NL, NL, " ", NL, "b", NL, "c", NL, NL>>
ExLone == <<"a", NL, NL, BULLET, NL, NL, "b", NL, "1", DOT, NL, NL, DASH>>
ExPiped == <<"a", " ", PIPE, " ", "b", NL, NL, "1", "0", "0", "0", DOT, "c">>

Examples == {ExHello, ExSteps, ExParas, ExItems, ExHundred, ExTab, ExBlanks, ExLone, ExPiped}

Strings == UNION {[1..n -> Alphabet] : n \in 0..MaxLen}

Inputs == Strings \cup Examples

\* ------------------------------------------------------------------------
\* str methods used by the formatter
\* ------------------------------------------------------------------------
Range(s) == {s[k] : k \in DOMAIN s}

\* s[:n]
Prefix(s, n) == SubSeq(s, 1, IF n < Len(s) THEN n ELSE Len(s))

\* s[n:]
Suffix(s, n) == SubSeq(s, n + 1, Len(s))

RECURSIVE lstrip(_)
lstrip(s) == IF s # <<>> /\ IsSpace(Head(s)) THEN lstrip(Tail(s)) ELSE s

RECURSIVE rstrip(_)
rstrip(s) == IF s # <<>> /\ IsSpace(s[Len(s)]) THEN rstrip(Prefix(s, Len(s) - 1)) ELSE s

\* str.strip()
strip(s) == rstrip(lstrip(s))

startswith(s, p) == Len(s) >= Len(p) /\ Prefix(s, Len(p)) = p

\* str.replace(old, ''): leftmost non-overlapping occurrences, one pass
RECURSIVE remove(_, _)
remove(s, old) ==
    IF Len(s) < Len(old) THEN s
    ELSE IF startswith(s, old) THEN remove(Suffix(s, Len(old)), old)
    ELSE <<Head(s)>> \o remove(Tail(s), old)

\* str.split(sep) for a one-character sep: always at least one piece
RECURSIVE split_on(_, _)
split_on(s, sep) ==
    IF \A k \in DOMAIN s : s[k] # sep THEN <<s>>
    ELSE LET k == CHOOSE j \in DOMAIN s : s[j] = sep /\ \A h \in 1..(j - 1) : s[h] # sep
         IN <<Prefix(s, k - 1)>> \o split_on(Suffix(s, k), sep)

\* str.split(): the maximal runs of non-whitespace characters
RECURSIVE split_ws(_)
split_ws(s) ==
    LET t == lstrip(s)
    IN IF t = <<>> THEN <<>>
       ELSE IF \A k \in DOMAIN t : ~IsSpace(t[k]) THEN <<t>>
       ELSE LET k == CHOOSE j \in DOMAIN t : IsSpace(t[j]) /\ \A h \in 1..(j - 1) : ~IsSpace(t[h])
            IN <<Prefix(t, k - 1)>> \o split_ws(Suffix(t, k))

\* sep.join(parts)
RECURSIVE join(_, _)
join(sep, parts) ==
    IF parts = <<>> THEN <<>>
    ELSE IF Len(parts) = 1 THEN parts[1]
    ELSE parts[1] \o sep \o join(sep, Tail(parts))

\* s.split('.', 1)[1]: what follows the first dot
after_first_dot(s) ==
    LET k == CHOOSE j \in DOMAIN s : s[j] = DOT /\ \A h \in 1..(j - 1) : s[h] # DOT
    IN Suffix(s, k)

\* ------------------------------------------------------------------------
\* format_agent_response: the per-line rules
\* ------------------------------------------------------------------------
\* str(IndexError) for cleaned[0] on an empty string
IndexErrorMsg == <<"s","t","r","i","n","g"," ","i","n","d","e","x"," ","o","u","t"," ","o","f"," ","r","a","n","g","e">>

\* the test made on the line as read, `if not line`
is_section_break_unstripped(line, stripped) == line = <<>>

\* `if not stripped`: the line is a section break
is_section_break(line, stripped) == stripped = <<>>

\* the dot looked for in `cleaned[:4]`
number_rule_four(cleaned) == IsDigit(cleaned[1]) /\ DOT \in Range(Prefix(cleaned, 4))

\* `or` in place of `and`
number_rule_or(cleaned) == IsDigit(cleaned[1]) \/ DOT \in Range(Prefix(cleaned, 3))

\* `cleaned[0].isdigit() and '.' in cleaned[:3]`
number_rule(cleaned) == IsDigit(cleaned[1]) /\ DOT \in Range(Prefix(cleaned, 3))

\* `cleaned.startswith(BULLET) or cleaned.startswith('-')`
bullet_rule(cleaned) == startswith(cleaned, <<BULLET>>) \/ startswith(cleaned, <<DASH>>)

\* `cleaned.lstrip('-' + BULLET).strip()`: every leading bullet dropped
RECURSIVE drop_all_bullets(_)
drop_all_bullets(cleaned) ==
    IF cleaned # <<>> /\ cleaned[1] \in {BULLET, DASH} THEN drop_all_bullets(Tail(cleaned))
    ELSE strip(cleaned)

\* `cleaned[1:].strip()`
drop_bullet(cleaned) == strip(Suffix(cleaned, 1))

\* `cleaned.split('.', 1)[1].strip() if '.' in cleaned else cleaned`
drop_number(cleaned) ==
    IF DOT \in Range(cleaned) THEN strip(after_first_dot(cleaned)) ELSE cleaned

\* which branch of the if / elif the line takes
branch_of(cleaned) ==
    IF number_rule(cleaned) THEN "numbered"
    ELSE IF bullet_rule(cleaned) THEN "bullet"
    ELSE "plain"

\* `cleaned[0]` raises IndexError on an empty string
raises_index_error(cleaned) == cleaned = <<>>

\* the else branch of the loop body, for a string with a first character
clean_line(stripped) ==
    IF number_rule(stripped) THEN drop_number(stripped)
    ELSE IF bullet_rule(stripped) THEN drop_bullet(stripped)
    ELSE stripped

\* the append made without the `if current_section` test
close_section_always(secs, cur) == Append(secs, join(<<SPACE>>, cur))

\* `if current_section: sections.append(' '.join(current_section))`
close_section(secs, cur) ==
    IF cur # <<>> THEN Append(secs, join(<<SPACE>>, cur)) ELSE secs

\* strip, then the three replace calls, in the order of the code
remove_markdown(t) == remove(remove(remove(strip(t), <<STAR, STAR>>), <<HASH, HASH>>), <<STAR>>)

\* `' | '.join(sections)` and then `' '.join(result.split())`
join_sections(secs) == join(<<SPACE, PIPE, SPACE>>, secs)

\* `result.strip()` in place of the split and join
collapse_spaces_strip(s) == strip(s)

collapse_spaces(s) == join(<<SPACE>>, split_ws(s))

\* the for loop as a fold over the lines: the sections, or the exception
RECURSIVE walk(_, _, _)
walk(ls, secs, cur) ==
    IF ls = <<>> THEN [raised |-> FALSE, sections |-> close_section(secs, cur)]
    ELSE IF is_section_break(Head(ls), strip(Head(ls)))
         THEN walk(Tail(ls), close_section(secs, cur), <<>>)
    ELSE IF raises_index_error(strip(Head(ls)))
         THEN [raised |-> TRUE, sections |-> secs]
    ELSE walk(Tail(ls), secs, Append(cur, clean_line(strip(Head(ls)))))

\* the whole function, as the chat handler calls it
format_agent_response(t) ==
    LET w == walk(split_on(remove_markdown(t), NL), <<>>, <<>>)
    IN IF w.raised THEN [raised |-> TRUE, value |-> <<>>]
       ELSE [raised |-> FALSE, value |-> collapse_spaces(join_sections(w.sections))]

\* ------------------------------------------------------------------------
\* State
\* ------------------------------------------------------------------------
VARIABLES
    text,             \* the argument of format_agent_response
    pc,               \* "call", "loop", "done", "raised"
    lines,            \* text.split('\n') after the markers are removed
    idx,              \* position of the for loop in lines
    sections,
    current_section,
    stripped,         \* the last line the loop looked at, stripped
    cleaned,          \* the fragment appended for that line
    branch,           \* the branch that line took
    result,           \* the returned string
    call,             \* 1: first call, 2: the call on the first call's result
    chat              \* the in-flight POST /chat requests

fvars == <<text, pc, lines, idx, sections, current_section, stripped, cleaned, branch, result, call>>
vars == <<text, pc, lines, idx, sections, current_section, stripped, cleaned, branch, result, call, chat>>

Requests == 1..NumRequests

\* a request before it arrives: no local of the handler is bound yet
IdleRequest == [pc |-> "idle", prompt |-> <<>>, sent |-> <<>>, calls |-> 0,
                gateway |-> <<>>, exc |-> <<>>, returned |-> <<>>]

\* ------------------------------------------------------------------------
\* format_agent_response, statement by statement
\* ------------------------------------------------------------------------
\* lines 244-254
Begin ==
    /\ pc = "call"
    /\ lines' = split_on(remove_markdown(text), NL)
    /\ sections' = <<>>
    /\ current_section' = <<>>
    /\ idx' = 1
    /\ stripped' = <<>>
    /\ cleaned' = <<>>
    /\ branch' = "none"
    /\ pc' = "loop"
    /\ UNCHANGED <<text, result, call, chat>>

\* lines 256-263: an empty line closes the open section
BlankLine ==
    /\ pc = "loop"
    /\ idx <= Len(lines)
    /\ is_section_break(lines[idx], strip(lines[idx]))
    /\ stripped' = strip(lines[idx])
    /\ cleaned' = <<>>
    /\ branch' = "blank"
    /\ sections' = close_section(sections, current_section)
    /\ current_section' = IF current_section # <<>> THEN <<>> ELSE current_section
    /\ idx' = idx + 1
    /\ UNCHANGED <<text, pc, lines, result, call, chat>>

\* lines 264-274: a line with content is cleaned and accumulated
ContentLine ==
    /\ pc = "loop"
    /\ idx <= Len(lines)
    /\ ~is_section_break(lines[idx], strip(lines[idx]))
    /\ stripped' = strip(lines[idx])
    /\ IF raises_index_error(strip(lines[idx]))
       THEN /\ pc' = "raised"
            /\ UNCHANGED <<cleaned, branch, current_section, idx>>
       ELSE /\ cleaned' = clean_line(strip(lines[idx]))
            /\ branch' = branch_of(strip(lines[idx]))
            /\ current_section' = Append(current_section, clean_line(strip(lines[idx])))
            /\ idx' = idx + 1
            /\ pc' = pc
    /\ UNCHANGED <<text, lines, sections, result, call, chat>>

\* lines 276-286
Finish ==
    /\ pc = "loop"
    /\ idx > Len(lines)
    /\ sections' = close_section(sections, current_section)
    /\ result' = collapse_spaces(join_sections(close_section(sections, current_section)))
    /\ pc' = "done"
    /\ UNCHANGED <<text, lines, idx, current_section, stripped, cleaned, branch, call, chat>>

\* the formatter applied to its own result
Reapply ==
    /\ pc = "done"
    /\ call = 1
    /\ text' = result
    /\ call' = 2
    /\ pc' = "call"
    /\ UNCHANGED <<lines, idx, sections, current_section, stripped, cleaned, branch, result, chat>>

Init ==
    /\ text \in Inputs
    /\ pc = "call"
    /\ lines = <<>>
    /\ idx = 1
    /\ sections = <<>>
    /\ current_section = <<>>
    /\ stripped = <<>>
    /\ cleaned = <<>>
    /\ branch = "none"
    /\ result = <<>>
    /\ call = 1
    /\ chat = [r \in Requests |-> IdleRequest]

\* the statement-by-statement run and the function agree
FormatAgrees ==
    /\ pc = "done" => format_agent_response(text) = [raised |-> FALSE, value |-> result]
    /\ pc = "raised" => format_agent_response(text).raised

Next == Begin \/ BlankLine \/ ContentLine \/ Finish \/ Reapply

Spec == Init /\ [][Next]_vars

\* ------------------------------------------------------------------------
\* POST /chat
\* ------------------------------------------------------------------------
Prompts == {<<"h","i">>, <<"1","+","1">>}

\* what response.text can be: a completion, or None when there is no text part
Completions == {ExParas, ExItems, <<HASH, STAR, HASH>>, <<SPACE, NL>>}
GatewayResults == [text : Completions, is_none : {FALSE}] \cup {[text |-> <<>>, is_none |-> TRUE]}

\* str(e) of the exceptions the client library raises
Errors == {<<"4","2","9"," ","q","u","o","t","a">>, <<"t","i","m","e","d"," ","o","u","t">>}

\* str(e) of `text_response[:50]` when response.text is None
TypeErrorMsg == <<"'","N","o","n","e","T","y","p","e","'"," ","o","b","j","e","c","t"," ","i","s"," ","n","o","t"," ","s","u","b","s","c","r","i","p","t","a","b","l","e">>

ErrorPrefix == <<"E","r","r","o","r",":"," ">>

\* line 233
ok_response(formatted) == [response |-> formatted]

\* line 238
error_response(msg) == [response |-> ErrorPrefix \o msg, error |-> TRUE]

\* an exception raised inside the try block: control moves to the except clause
raise(req, msg) == [req EXCEPT !.pc = "except", !.exc = <<msg>>]

\* an except clause that calls the gateway a second time before giving up
except_retry(req) ==
    IF req.calls = 1 THEN [req EXCEPT !.pc = "client", !.exc = <<>>]
    ELSE [req EXCEPT !.pc = "responded", !.returned = Append(@, error_response(req.exc[1]))]

\* lines 234-238: the handler returns the error response
except_clause(req) ==
    [req EXCEPT !.pc = "responded", !.returned = Append(@, error_response(req.exc[1]))]

\* `response` kept in a module-level variable: the latest result of any request
response_shared(r) ==
    chat[CHOOSE q \in Requests :
            /\ chat[q].gateway # <<>>
            /\ \A o \in Requests : chat[o].gateway # <<>> => q <= o].gateway[1]

\* the `response` local of request r (line 212), read at line 227
response_of(r) == chat[r].gateway[1]

\* lines 188-190: the request arrives with its prompt
Receive(r, p) ==
    /\ chat[r].pc = "idle"
    /\ chat' = [chat EXCEPT ![r] = [@ EXCEPT !.pc = "try", !.prompt = p]]
    /\ UNCHANGED fvars

\* lines 192-199: the import and the construction of the client succeed
CreateClient(r) ==
    /\ chat[r].pc = "try"
    /\ chat' = [chat EXCEPT ![r] = [@ EXCEPT !.pc = "client"]]
    /\ UNCHANGED fvars

\* lines 192-198: the import or the construction of the client raises
CreateClientRaises(r, e) ==
    /\ chat[r].pc = "try"
    /\ chat' = [chat EXCEPT ![r] = raise(@, e)]
    /\ UNCHANGED fvars

\* lines 212-224: generate_content is called with the request's prompt
CallGateway(r) ==
    /\ chat[r].pc = "client"
    /\ chat' = [chat EXCEPT ![r] = [@ EXCEPT !.pc = "awaiting", !.calls = @ + 1,
                                              !.sent = chat[r].prompt]]
    /\ UNCHANGED fvars

\* line 212: the call returns a response object
GatewayReturns(r, g) ==
    /\ chat[r].pc = "awaiting"
    /\ chat' = [chat EXCEPT ![r] = [@ EXCEPT !.pc = "got", !.gateway = <<g>>]]
    /\ UNCHANGED fvars

\* line 212: the call raises (network, auth, quota)
GatewayRaises(r, e) ==
    /\ chat[r].pc = "awaiting"
    /\ chat' = [chat EXCEPT ![r] = raise(@, e)]
    /\ UNCHANGED fvars

\* lines 227-233: extract the text, format it, return it
Respond(r) ==
    /\ chat[r].pc = "got"
    /\ LET g == response_of(r)
           f == format_agent_response(g.text)
       IN chat' = [chat EXCEPT ![r] =
                     IF g.is_none THEN raise(@, TypeErrorMsg)
                     ELSE IF f.raised THEN raise(@, IndexErrorMsg)
                     ELSE [@ EXCEPT !.pc = "responded",
                                    !.returned = Append(@, ok_response(f.value))]]
    /\ UNCHANGED fvars

\* lines 234-238
HandleException(r) ==
    /\ chat[r].pc = "except"
    /\ chat' = [chat EXCEPT ![r] = except_clause(@)]
    /\ UNCHANGED fvars

ChatInit ==
    /\ text = <<>>
    /\ pc = "call"
    /\ lines = <<>>
    /\ idx = 1
    /\ sections = <<>>
    /\ current_section = <<>>
    /\ stripped = <<>>
    /\ cleaned = <<>>
    /\ branch = "none"
    /\ result = <<>>
    /\ call = 1
    /\ chat = [r \in Requests |-> IdleRequest]

ChatNext ==
    \E r \in Requests :
        \/ \E p \in Prompts : Receive(r, p)
        \/ CreateClient(r)
        \/ \E e \in Errors : CreateClientRaises(r, e)
        \/ CallGateway(r)
        \/ \E g \in GatewayResults : GatewayReturns(r, g)
        \/ \E e \in Errors : GatewayRaises(r, e)
        \/ Respond(r)
        \/ HandleException(r)

ChatSpec == ChatInit /\ [][ChatNext]_vars

\* ------------------------------------------------------------------------
\* Vocabulary of the properties
\* ------------------------------------------------------------------------
Done == pc = "done"

FirstCall == call = 1

WhitespaceOnly(s) == \A k \in DOMAIN s : IsSpace(s[k])

HasPair(s, a, b) == \E k \in 1..(Len(s) - 1) : s[k] = a /\ s[k + 1] = b

HasTriple(s, a, b, c) == \E k \in 1..(Len(s) - 2) : s[k] = a /\ s[k + 1] = b /\ s[k + 2] = c

Occurrences(s, c) == Cardinality({k \in DOMAIN s : s[k] = c})

ContentBranches == {"numbered", "bullet", "plain"}

\* position of the first dot of s, 0 when there is none
FirstDot(s) ==
    IF DOT \in Range(s) THEN CHOOSE k \in DOMAIN s : s[k] = DOT /\ \A h \in 1..(k - 1) : s[h] # DOT
    ELSE 0

DotInFirstThree(s) == FirstDot(s) \in {1, 2, 3}

\* C1: the formatter returns for every input and never raises; the loop never
\* reads the first character of an empty line; an empty or whitespace-only
\* input gives the empty string.
C1_Total ==
    /\ pc # "raised"
    /\ branch \in ContentBranches => stripped # <<>>
    /\ (Done /\ WhitespaceOnly(text)) => result = <<>>

\* a marker-only or whitespace-only line that is not empty was walked, and the
\* result is the empty string
C1_Witness ==
    /\ Done /\ FirstCall
    /\ text # <<>>
    /\ \E k \in DOMAIN lines : lines[k] # <<>> /\ WhitespaceOnly(lines[k])
    /\ result = <<>>

\* C3 (as stated): the output holds no `*` and no `##`.
C3_NoMarkers ==
    Done => (STAR \notin Range(result) /\ ~HasPair(result, HASH, HASH))

\* C6: the output has no leading or trailing whitespace, no newline, no tab,
\* and no two consecutive whitespace characters.
C6_Normalised ==
    Done =>
        /\ NL \notin Range(result)
        /\ TAB \notin Range(result)
        /\ result # <<>> => (~IsSpace(result[1]) /\ ~IsSpace(result[Len(result)]))
        /\ \A k \in 1..(Len(result) - 1) : ~(IsSpace(result[k]) /\ IsSpace(result[k + 1]))

\* an input with a tab, and with whitespace at both ends of a line, was formatted
C6_Witness ==
    /\ Done /\ FirstCall
    /\ TAB \in Range(text)
    /\ IsSpace(text[Len(text)])
    /\ SPACE \in Range(result)

\* C8 (as stated): for an input without `|` the output has no empty segment:
\* it does not start or end with `|` and does not contain `| |`.
C8_NoEmptySegment ==
    (Done /\ PIPE \notin Range(text)) =>
        /\ result # <<>> => (result[1] # PIPE /\ result[Len(result)] # PIPE)
        /\ ~HasTriple(result, PIPE, SPACE, PIPE)

\* ------------------------------------------------------------------------
\* Sections as runs of lines
\* ------------------------------------------------------------------------
NonBlank(l) == \E k \in DOMAIN l : ~IsSpace(l[k])

\* first lines of the maximal runs of consecutive non-blank lines of ls
RunStarts(ls) ==
    {a \in DOMAIN ls : NonBlank(ls[a]) /\ (a = 1 \/ ~NonBlank(ls[a - 1]))}

\* last line of the run that starts at a
RunEnd(ls, a) ==
    CHOOSE b \in a..Len(ls) :
        /\ \A k \in a..b : NonBlank(ls[k])
        /\ (b = Len(ls) \/ ~NonBlank(ls[b + 1]))

\* the fragments of the run that starts at a, joined by single spaces
RunSegment(ls, a) ==
    join(<<SPACE>>, [k \in 1..(RunEnd(ls, a) - a + 1) |-> clean_line(strip(ls[a + k - 1]))])

RECURSIVE Ascending(_)
Ascending(S) ==
    IF S = {} THEN <<>>
    ELSE LET m == CHOOSE x \in S : \A y \in S : x <= y
         IN <<m>> \o Ascending(S \ {m})

RunSegments(ls) ==
    LET starts == Ascending(RunStarts(ls))
    IN [k \in DOMAIN starts |-> RunSegment(ls, starts[k])]

\* C2: one segment per maximal run of consecutive non-blank lines, in order;
\* the lines of a run are joined by one space, the runs by one " | ", and
\* blank lines (however many, wherever they are) add no delimiter.  The lines
\* are those the loop walks; the joined string is then whitespace-collapsed.
C2_Segments ==
    Done =>
        /\ sections = RunSegments(lines)
        /\ result = collapse_spaces(join(<<SPACE, PIPE, SPACE>>, RunSegments(lines)))
        /\ (\A k \in DOMAIN lines : PIPE \notin Range(lines[k])) =>
               Occurrences(result, PIPE) =
                   (IF RunStarts(lines) = {} THEN 0 ELSE Cardinality(RunStarts(lines)) - 1)

\* two runs, one of them of two lines, with more than one blank line between
\* them and a blank line at the end
C2_Witness ==
    /\ Done /\ FirstCall
    /\ Cardinality(RunStarts(lines)) = 2
    /\ \E a \in RunStarts(lines) : RunEnd(lines, a) > a
    /\ \E k \in 1..(Len(lines) - 1) : ~NonBlank(lines[k]) /\ ~NonBlank(lines[k + 1])
    /\ Occurrences(result, PIPE) = 1

\* ------------------------------------------------------------------------
\* The per-line rules
\* ------------------------------------------------------------------------
\* the first three clauses of C4 for a character class D of "digits"
NumberedRuleFor(D) ==
    branch \in ContentBranches =>
        /\ branch = "numbered" <=> (stripped[1] \in D /\ DotInFirstThree(stripped))
        /\ branch = "numbered" =>
               cleaned = strip(SubSeq(stripped, FirstDot(stripped) + 1, Len(stripped)))
        /\ (stripped[1] \in D /\ FirstDot(stripped) > 3) => cleaned = stripped

HundredExample == (Done /\ FirstCall /\ text = ExHundred) => result = ExHundredOut

\* C4 (as stated): the numbered-prefix rule applies exactly when the first
\* character is an ASCII digit and a dot is among the first three characters.
C4_AsciiDigitRule == NumberedRuleFor(AsciiDigits) /\ HundredExample

\* C4 (amended): the numbered-prefix rule applies exactly when the first
\* character is a digit in the sense of str.isdigit (any Unicode digit) and a
\* dot is among the first three characters; then everything up to and
\* including the first dot is removed and the rest trimmed; a line whose first
\* dot is at index 3 or later is kept as it is.
C4_DigitRule == NumberedRuleFor(Digits) /\ HundredExample

\* "100. not stripped" was walked and kept, in the documented example
C4_Witness ==
    /\ Done /\ FirstCall
    /\ text = ExHundred
    /\ branch = "plain"
    /\ stripped[1] \in AsciiDigits /\ FirstDot(stripped) = 4
    /\ result = ExHundredOut

Bullets == {BULLET, DASH}

\* C9: a line the numbered rule does not apply to loses exactly one leading
\* bullet (and the rest is trimmed) when it starts with one, and is accumulated
\* unchanged otherwise; a line the numbered rule applies to loses no bullet.
C9_BulletRule ==
    (pc = "loop" /\ branch \in ContentBranches) =>
        /\ current_section[Len(current_section)] = cleaned
        /\ branch \in {"bullet", "plain"} =>
               IF stripped[1] \in Bullets
               THEN branch = "bullet" /\ cleaned = strip(Tail(stripped))
               ELSE branch = "plain" /\ cleaned = stripped
        /\ branch = "numbered" =>
               /\ stripped[1] \notin Bullets
               /\ cleaned = strip(SubSeq(stripped, FirstDot(stripped) + 1, Len(stripped)))

\* a line with two leading bullets kept the second one
C9_Witness ==
    /\ pc = "loop"
    /\ branch = "bullet"
    /\ Len(stripped) >= 3
    /\ stripped[2] \in Bullets
    /\ cleaned # <<>> /\ cleaned[1] \in Bullets

\* ------------------------------------------------------------------------
\* Re-applying the formatter
\* ------------------------------------------------------------------------
AlreadyFormatted(y) ==
    /\ STAR \notin Range(y)
    /\ ~HasPair(y, HASH, HASH)
    /\ Bullets \cap Range(y) = {}
    /\ ~(y # <<>> /\ IsDigit(y[1]) /\ DotInFirstThree(y))

\* C7: an output of the formatter with no marker, no digit-and-dot prefix and
\* no bullet is returned unchanged by a second application.
C7_Reapply ==
    (Done /\ call = 2 /\ AlreadyFormatted(text)) => result = text

\* a two-segment output was formatted again
C7_Witness ==
    /\ Done /\ call = 2
    /\ AlreadyFormatted(text)
    /\ HasTriple(text, SPACE, PIPE, SPACE)
    /\ result = text

\* ------------------------------------------------------------------------
\* POST /chat
\* ------------------------------------------------------------------------
Failed(req) == req.exc # <<>>

\* the response a request's own outcome calls for
OwnResponse(req) ==
    IF Failed(req) THEN [response |-> ErrorPrefix \o req.exc[1], error |-> TRUE]
    ELSE [response |-> format_agent_response(req.gateway[1].text).value]

\* C5: the handler calls the gateway at most once and returns exactly one
\* response; after a failure it is {response: "Error: " + str(e), error: true},
\* otherwise {response: the formatted completion} without an error flag.
C5_ChatResponse ==
    \A r \in Requests :
        /\ chat[r].calls <= 1
        /\ Len(chat[r].returned) <= 1
        /\ chat[r].pc = "responded" =>
               /\ Len(chat[r].returned) = 1
               /\ ("error" \in DOMAIN chat[r].returned[1]) <=> Failed(chat[r])
               /\ DOMAIN chat[r].returned[1] = DOMAIN OwnResponse(chat[r])
               /\ chat[r].returned[1].response = OwnResponse(chat[r]).response
               /\ Failed(chat[r]) => chat[r].returned[1].error = TRUE

\* a request whose one gateway call raised was answered with the error shape
C5_Witness ==
    \E r \in Requests :
        /\ chat[r].pc = "responded"
        /\ chat[r].calls = 1
        /\ Failed(chat[r])
        /\ chat[r].gateway = <<>>
        /\ "error" \in DOMAIN chat[r].returned[1]

\* a step of one request leaves the locals of every other request alone
OneRequestPerStep ==
    \A r1, r2 \in Requests : r1 # r2 => (chat[r1]' = chat[r1] \/ chat[r2]' = chat[r2])

\* C10: whatever the interleaving, a request's gateway call carries its own
\* prompt, its response is the one its own outcome calls for, and a step of
\* one request changes nothing of another request.
C10_Isolation ==
    /\ [](\A r \in Requests :
            /\ chat[r].calls > 0 => chat[r].sent = chat[r].prompt
            /\ chat[r].pc = "responded" =>
                   /\ DOMAIN chat[r].returned[1] = DOMAIN OwnResponse(chat[r])
                   /\ chat[r].returned[1].response = OwnResponse(chat[r]).response)
    /\ [][OneRequestPerStep]_vars

\* a request was answered while another, with another prompt and another
\* gateway result, was still in flight
C10_Witness ==
    \E r1, r2 \in Requests :
        /\ chat[r1].pc = "got"
        /\ chat[r2].pc = "responded"
        /\ chat[r2].gateway # <<>>
        /\ ~Failed(chat[r2])
        /\ chat[r1].prompt # chat[r2].prompt
        /\ chat[r1].gateway # chat[r2].gateway

====
